---- MODULE Spec2Model ----
(***************************************************************************)
(* Searchable-encryption engine of the repository: text normalisation and  *)
(* trigram tokenisation (app/utils.py), the Bloom filter (app/bloomy.py),  *)
(* the envelope cipher and blind index (app/encryption.py), the patient   *)
(* routes that compose them (app/routes.py) and the sessions that          *)
(* authenticate their callers (app/auth.py, app/auth_routes.py).           *)
(*                                                                         *)
(* A Python str is a sequence of code points (97 is "a", 32 is " ");       *)
(* bytes are a sequence of 0..255. An optional value (Python's None or a   *)
(* value) is the empty sequence or a one-element sequence.                 *)
(***************************************************************************)
EXTENDS Integers, Sequences, FiniteSets, TLC

VARIABLES
    text,        \* utils: the argument of normalize_string / generate_trigrams
    normalized,  \* utils: normalize_string(text), once called
    renormalized,\* utils: normalize_string(normalize_string(text)), once called
    trigrams,    \* utils: the list generate_trigrams(text) returned, once called
    filter,      \* bloomy: the BloomFilter instance (size, hash_count, bit_array)
    added,       \* bloomy: history of the values passed to filter.add
    checked,     \* bloomy: the last filter.check call: value, result, added before
    blob,        \* bloomy: the text filter.serialize() returned, once called
    serialized,  \* bloomy: history, the filter as it was when serialize was called
    restored,    \* bloomy: the filter BloomFilter.deserialize(blob) returned
    aes_key,     \* encryption: EncryptionService.aes_key, the key of self.aesgcm
    plaintext,   \* encryption: the argument of encrypt_data
    sealed,      \* encryption: the (ciphertext, iv, tag) encrypt_data returned
    presented,   \* encryption: the arguments handed to decrypt_data, and how
                 \*             they were derived from the sealed record
    opened,      \* encryption: the outcome of decrypt_data
    hmac_key,    \* encryption: EncryptionService.hmac_key
    calls,       \* encryption: per value, the outcomes of the generate_hmac_token
                 \*             calls made with it so far, oldest first
    patients,    \* database: the committed rows of table patients
    search_tokens, \* database: the committed rows of table search_tokens
    next_patient_id, \* database: the next value of the patients.id sequence
    request,     \* routes: the last request handled: handler, caller, input,
                 \*         response status and body, statements run on the tables
    texts,       \* routes: history, per create_patient call the id its row got,
                 \*         the caller and the searchable text
    inflight,    \* routes: per request slot, the create_patient call that is
                 \*         suspended at an await, with its uncommitted rows
    writers,     \* bloomy: per thread, the filter.add call it is in: the value,
                 \*         the loop counter, the index and the byte it has read
    sessions,    \* database: the committed rows of table sessions
    now,         \* auth: datetime.now(UTC), in hours
    issued,      \* auth: history, per token login_user handed out, the user
                 \*       and the expiry it was created with
    logouts,     \* auth: the logout requests whose dependency has resolved
                 \*       the session and whose handler has not yet run
    logged_out,  \* auth: history, the tokens whose logout_user has completed
    auth         \* auth: the last request that went through get_current_user:
                 \*       token presented, status, user, and history: whether
                 \*       the token was logged out before and whether its
                 \*       session was created and had not expired

textVars == <<text, normalized, renormalized, trigrams>>
bloomVars == <<filter, added, checked, blob, serialized, restored>>
cipherVars == <<aes_key, plaintext, sealed, presented, opened>>
hmacVars == <<hmac_key, calls>>
searchVars == <<patients, search_tokens, next_patient_id, request, texts>>
writeVars == <<inflight>>
raceVars == <<writers>>
authVars == <<sessions, now, issued, logouts, logged_out, auth>>
vars == <<textVars, bloomVars, cipherVars, hmacVars, searchVars, writeVars, raceVars,
          authVars>>

notText == <<raceVars, authVars, bloomVars, cipherVars, hmacVars, searchVars, writeVars>>
notBloom == <<raceVars, authVars, textVars, cipherVars, hmacVars, searchVars, writeVars>>
notCipher == <<raceVars, authVars, textVars, bloomVars, hmacVars, searchVars, writeVars>>
notHmac == <<raceVars, authVars, textVars, bloomVars, cipherVars, searchVars, writeVars>>
notSearch == <<raceVars, authVars, textVars, bloomVars, cipherVars, hmacVars, writeVars>>
notWrite == <<raceVars, authVars, textVars, bloomVars, cipherVars, hmacVars>>
notRace == <<authVars, textVars, cipherVars, hmacVars, searchVars, writeVars>>
notAuth == <<raceVars, textVars, bloomVars, cipherVars, hmacVars, searchVars, writeVars>>

----------------------------------------------------------------------------
(* Options and small helpers *)

None == <<>>
Some(x) == <<x>>

RECURSIVE SumSeq(_)
SumSeq(s) == IF s = <<>> THEN 0 ELSE Head(s) + SumSeq(Tail(s))

RECURSIVE SeqsUpTo(_, _)
\* every sequence over S of length at most n
SeqsUpTo(S, n) ==
    IF n = 0 THEN {<<>>}
    ELSE LET shorter == SeqsUpTo(S, n - 1)
         IN  shorter \cup {<<c>> \o s : c \in S, s \in {t \in shorter : Len(t) = n - 1}}

\* every ordering of the finite set S, as a sequence without repetition
Orderings(S) ==
    {f \in [1..Cardinality(S) -> S] : \A i, j \in 1..Cardinality(S) : f[i] = f[j] => i = j}

Range(s) == {s[i] : i \in DOMAIN s}

----------------------------------------------------------------------------
(* Characters *)

Letters ==
    <<"a", "b", "c", "d", "e", "f", "g", "h", "i", "j", "k", "l", "m",
      "n", "o", "p", "q", "r", "s", "t", "u", "v", "w", "x", "y", "z">>

\* the code point of a character
Ord(c) ==
    CASE c = " " -> 32 [] c = "!" -> 33 [] c = "_" -> 95 [] c = "TAB" -> 9
      [] c = "0" -> 48 [] c = "1" -> 49 [] c = "9" -> 57
      [] c = "A" -> 65 [] c = "D" -> 68 [] c = "J" -> 74
      [] OTHER -> 96 + (CHOOSE i \in DOMAIN Letters : Letters[i] = c)

\* the str whose characters are named one by one
Str(cs) == [i \in DOMAIN cs |-> Ord(cs[i])]

\* str.isspace and the regular expression class \s agree on ASCII
IsSpace(c) == c \in {9, 10, 11, 12, 13, 28, 29, 30, 31, 32}

----------------------------------------------------------------------------
(* app/utils.py *)

Lower(s) == [i \in DOMAIN s |-> IF s[i] \in 65..90 THEN s[i] + 32 ELSE s[i]]

RECURSIVE LStrip(_)
LStrip(s) == IF s = <<>> \/ ~IsSpace(Head(s)) THEN s ELSE LStrip(Tail(s))

RECURSIVE RStrip(_)
RStrip(s) ==
    IF s = <<>> \/ ~IsSpace(s[Len(s)]) THEN s ELSE RStrip(SubSeq(s, 1, Len(s) - 1))

Strip(s) == RStrip(LStrip(s))

\* re.sub(r'[^a-z0-9\s]', '', text)
KeepChar(c) == c \in 97..122 \/ c \in 48..57 \/ IsSpace(c)
RemoveNonAlnum(s) == SelectSeq(s, KeepChar)

RECURSIVE CollapseSpaces(_)
\* re.sub(r'\s+', ' ', text)
CollapseSpaces(s) ==
    IF s = <<>> THEN <<>>
    ELSE IF IsSpace(Head(s)) THEN <<32>> \o CollapseSpaces(LStrip(Tail(s)))
    ELSE <<Head(s)>> \o CollapseSpaces(Tail(s))

normalize_string(t) == CollapseSpaces(RemoveNonAlnum(Strip(Lower(t))))

\* str.replace(' ', '_')
ReplaceSpace(s) == [i \in DOMAIN s |-> IF s[i] = 32 THEN 95 ELSE s[i]]

TrigramWindows_short(n) == [i \in 1..(Len(n) - 3) |-> ReplaceSpace(SubSeq(n, i, i + 2))]

\* the list the loop of generate_trigrams builds from the normalized text
TrigramWindows(n) == [i \in 1..(Len(n) - 2) |-> ReplaceSpace(SubSeq(n, i, i + 2))]

\* the elements of generate_trigrams(text): set(trigrams)
TrigramSet(t) ==
    LET n == normalize_string(t)
    IN  IF Len(n) < 3 THEN {}
        ELSE {w \in Range(TrigramWindows(n)) : Len(w) = 3}

\* the lists generate_trigrams(text) may return: list(set(...)) has no fixed order
generate_trigrams(t) == Orderings(TrigramSet(t))

----------------------------------------------------------------------------
(* Base64 text: a character is its 6-bit value 0..63, 64 is the padding "=",  *)
(* 65 is any character outside the alphabet. The URL-safe and the standard    *)
(* alphabet differ only in how the values 62 and 63 are written.              *)

Pad == 64
NonAlphabet == 65

NoExc == "none"
Returned(v) == [exc |-> NoExc, val |-> v]
Raised(e) == [exc |-> e, val |-> None]

RECURSIVE b64encode(_)
\* binascii.b2a_base64 without the newline: three bytes to four characters
b64encode(b) ==
    IF Len(b) = 0 THEN <<>>
    ELSE IF Len(b) = 1 THEN <<b[1] \div 4, (b[1] % 4) * 16, Pad, Pad>>
    ELSE IF Len(b) = 2
        THEN <<b[1] \div 4, ((b[1] % 4) * 16) + (b[2] \div 16), (b[2] % 16) * 4, Pad>>
    ELSE <<b[1] \div 4, ((b[1] % 4) * 16) + (b[2] \div 16),
           ((b[2] % 16) * 4) + (b[3] \div 64), b[3] % 64>> \o b64encode(SubSeq(b, 4, Len(b)))

RECURSIVE a2b_base64(_, _, _, _, _, _)
\* binascii.a2b_base64 in its default, non-strict mode: characters outside the
\* alphabet are skipped, a complete run of padding ends the input, and leftover
\* characters of an unfinished quad raise binascii.Error
a2b_base64(s, i, quad_pos, leftchar, pads, out) ==
    IF i > Len(s)
    THEN IF quad_pos # 0 THEN Raised("binascii.Error") ELSE Returned(out)
    ELSE IF s[i] = Pad
    THEN IF quad_pos >= 2 /\ quad_pos + pads + 1 >= 4
         THEN Returned(out)
         ELSE a2b_base64(s, i + 1, quad_pos, leftchar,
                         IF quad_pos >= 2 THEN pads + 1 ELSE pads, out)
    ELSE IF s[i] > Pad
    THEN a2b_base64(s, i + 1, quad_pos, leftchar, pads, out)
    ELSE CASE quad_pos = 0 -> a2b_base64(s, i + 1, 1, s[i], 0, out)
           [] quad_pos = 1 ->
                a2b_base64(s, i + 1, 2, s[i] % 16, 0, Append(out, (leftchar * 4) + (s[i] \div 16)))
           [] quad_pos = 2 ->
                a2b_base64(s, i + 1, 3, s[i] % 4, 0, Append(out, (leftchar * 16) + (s[i] \div 4)))
           [] quad_pos = 3 ->
                a2b_base64(s, i + 1, 0, 0, 0, Append(out, (leftchar * 64) + s[i]))

b64decode(s) == a2b_base64(s, 1, 0, 0, 0, <<>>)

----------------------------------------------------------------------------
(* app/bloomy.py *)

DefaultSize == 10000
DefaultHashCount == 7

\* BloomFilter.__init__
BloomFilter(size, hash_count) ==
    [size |-> size, hash_count |-> hash_count,
     bit_array |-> [i \in 1..((size + 7) \div 8) |-> 0]]

RECURSIVE Decimal(_)
\* the decimal digits of a natural number, as f"{seed}" writes them
Decimal(n) == IF n < 10 THEN <<48 + n>> ELSE Decimal(n \div 10) \o <<48 + (n % 10)>>

RECURSIVE Digest(_, _)
\* stands for int.from_bytes(hashlib.sha256(data).digest(), 'big'): a fixed
\* function of the whole text, here a polynomial hash of its characters
Digest(s, h) == IF s = <<>> THEN h ELSE Digest(Tail(s), ((h * 31) + Head(s)) % 65521)

sha256_int(s) == Digest(s, 7)

\* BloomFilter._hash
_hash(f, value, seed) == sha256_int(value \o Decimal(seed)) % f.size

RECURSIVE Pow2(_)
Pow2(k) == IF k = 0 THEN 1 ELSE 2 * Pow2(k - 1)

\* byte & (1 << k)
BitSet(byte, k) == (byte \div Pow2(k)) % 2 = 1

\* byte | (1 << k)
OrBit(byte, k) == IF BitSet(byte, k) THEN byte ELSE byte + Pow2(k)

SetIndex_assign(arr, index) == [arr EXCEPT ![(index \div 8) + 1] = Pow2(index % 8)]

\* self.bit_array[index // 8] |= 1 << (index % 8)
SetIndex(arr, index) == [arr EXCEPT ![(index \div 8) + 1] = OrBit(@, index % 8)]

RECURSIVE AddFrom(_, _, _)
AddFrom(f, value, i) ==
    IF i >= f.hash_count THEN f
    ELSE AddFrom([f EXCEPT !.bit_array = SetIndex(@, _hash(f, value, i))], value, i + 1)

\* BloomFilter.add
add(f, value) == AddFrom(f, value, 0)

\* BloomFilter.check
check(f, value) ==
    \A i \in 0..(f.hash_count - 1) :
        BitSet(f.bit_array[(_hash(f, value, i) \div 8) + 1], _hash(f, value, i) % 8)

\* BloomFilter.serialize
serialize(f) == b64encode(f.bit_array)

deserialize_keep_default(data) ==
    LET bit_array == b64decode(data)
    IN  IF bit_array.exc # NoExc THEN Raised(bit_array.exc)
        ELSE Returned([BloomFilter(DefaultSize, DefaultHashCount)
                          EXCEPT !.size = Len(bit_array.val) * 8])

\* BloomFilter.deserialize
deserialize(data) ==
    LET bit_array == b64decode(data)
    IN  IF bit_array.exc # NoExc THEN Raised(bit_array.exc)
        ELSE Returned([BloomFilter(DefaultSize, DefaultHashCount)
                          EXCEPT !.bit_array = bit_array.val,
                                 !.size = Len(bit_array.val) * 8])

----------------------------------------------------------------------------
(* Bounds and operations of the filter *)

MaxFilterSize == 16
MaxHashCount == 2

BloomValues == {Str(<<"a">>), Str(<<"b">>), Str(<<"a", "1">>)}

BloomIdle ==
    /\ filter = BloomFilter(1, 0)
    /\ added = {}
    /\ checked = None
    /\ blob = None
    /\ serialized = None
    /\ restored = None

BloomInit ==
    /\ \E size \in 1..MaxFilterSize, hash_count \in (0..MaxHashCount) \cup {DefaultHashCount} :
          filter = BloomFilter(size, hash_count)
    /\ added = {}
    /\ checked = None
    /\ blob = None
    /\ serialized = None
    /\ restored = None

\* filter.add(v)
Add ==
    \E v \in BloomValues :
        /\ filter' = add(filter, v)
        /\ added' = added \cup {v}
        /\ UNCHANGED <<checked, blob, serialized, restored, notBloom>>

\* filter.check(v)
Check ==
    \E v \in BloomValues :
        /\ checked' = Some([value |-> v, result |-> check(filter, v), wasAdded |-> v \in added])
        /\ UNCHANGED <<filter, added, blob, serialized, restored, notBloom>>

\* filter.serialize()
Serialize ==
    /\ blob' = Some(serialize(filter))
    /\ serialized' = Some(filter)
    /\ restored' = None
    /\ UNCHANGED <<filter, added, checked, notBloom>>

\* BloomFilter.deserialize(blob)
Deserialize ==
    /\ blob # None
    /\ restored = None
    /\ deserialize(blob[1]).exc = NoExc
    /\ restored' = Some(deserialize(blob[1]).val)
    /\ UNCHANGED <<filter, added, checked, blob, serialized, notBloom>>

BloomNext == Add \/ Check \/ Serialize \/ Deserialize

----------------------------------------------------------------------------
(* filter.add called from several threads on one BloomFilter. The statement  *)
(* self.bit_array[index // 8] |= 1 << (index % 8) reads the byte, ORs the    *)
(* bit and stores the byte; bloomy.py takes no lock, and the interpreter may *)
(* switch threads between the read and the store.                            *)

MaxWriters == 2

Writers == 1..MaxWriters

IdleWriter == [pc |-> "idle", value |-> <<>>, i |-> 0, index |-> 0, byte |-> 0]

RaceIdle == writers = <<>>

RaceInit ==
    /\ \E size \in 1..MaxFilterSize, hash_count \in 1..MaxHashCount :
          filter = BloomFilter(size, hash_count)
    /\ added = {}
    /\ checked = None
    /\ blob = None
    /\ serialized = None
    /\ restored = None
    /\ writers = [w \in Writers |-> IdleWriter]

\* a thread calls filter.add(v) and enters the loop
StartAdd(w) ==
    \E v \in BloomValues :
        /\ writers[w].pc = "idle"
        /\ writers' = [writers EXCEPT ![w] = [IdleWriter EXCEPT !.pc = "load", !.value = v]]
        /\ UNCHANGED <<bloomVars, notRace>>

\* index = self._hash(value, i), and the read of self.bit_array[index // 8]
LoadByte(w) ==
    LET index == _hash(filter, writers[w].value, writers[w].i)
    IN  /\ writers[w].pc = "load"
        /\ writers' = [writers EXCEPT ![w].pc = "store", ![w].index = index,
                                      ![w].byte = filter.bit_array[(index \div 8) + 1]]
        /\ UNCHANGED <<bloomVars, notRace>>

\* the store of byte | (1 << (index % 8)) to self.bit_array[index // 8], and
\* the next round of the loop; add returns after the last round
StoreByte(w) ==
    LET index == writers[w].index
        last == writers[w].i + 1 >= filter.hash_count
    IN  /\ writers[w].pc = "store"
        /\ filter' = [filter EXCEPT !.bit_array[(index \div 8) + 1] =
                                        OrBit(writers[w].byte, index % 8)]
        /\ writers' = [writers EXCEPT ![w].pc = IF last THEN "done" ELSE "load",
                                      ![w].i = @ + 1]
        /\ added' = IF last THEN added \cup {writers[w].value} ELSE added
        /\ UNCHANGED <<checked, blob, serialized, restored, notRace>>

RaceNext == \E w \in Writers : StartAdd(w) \/ LoadByte(w) \/ StoreByte(w)

----------------------------------------------------------------------------
(* Bounds and inputs of the text functions *)

MaxTextLen == 4

TextAlphabet == {Ord("a"), Ord("A"), Ord("1"), Ord(" "), Ord("TAB"), Ord("!")}

JohnDoe == Str(<<" ", "J", "o", "h", "n", " ", " ", " ", "D", "o", "e", "!", " ">>)

Texts == SeqsUpTo(TextAlphabet, MaxTextLen) \cup {JohnDoe}

TextIdle ==
    /\ text = <<>>
    /\ normalized = None
    /\ renormalized = None
    /\ trigrams = None

TextInit ==
    /\ text \in Texts
    /\ normalized = None
    /\ renormalized = None
    /\ trigrams = None

\* normalize_string(text)
Normalize ==
    /\ normalized = None
    /\ normalized' = Some(normalize_string(text))
    /\ UNCHANGED <<text, renormalized, trigrams, notText>>

\* normalize_string applied to its own result
NormalizeAgain ==
    /\ normalized # None
    /\ renormalized = None
    /\ renormalized' = Some(normalize_string(normalized[1]))
    /\ UNCHANGED <<text, normalized, trigrams, notText>>

\* generate_trigrams(text)
GenerateTrigrams ==
    /\ trigrams = None
    /\ \E l \in generate_trigrams(text) : trigrams' = Some(l)
    /\ UNCHANGED <<text, normalized, renormalized, notText>>

TextNext == Normalize \/ NormalizeAgain \/ GenerateTrigrams

----------------------------------------------------------------------------
(* app/encryption.py: keys and the AES-GCM primitive                        *)
(*                                                                          *)
(* The primitives of the cryptography library are deterministic functions   *)
(* of their whole input. PBKDF2, the GCM key stream and the GCM tag are      *)
(* small arithmetic stand-ins with the shape of the real ones: the body of   *)
(* a ciphertext is as long as the plaintext, the tag has 16 bytes and        *)
(* depends on key, nonce, associated data and body.                          *)

KdfLength == 32
NonceLen == 12
TagLen == 16
DigestSize == 32

AesSalt ==
    Str(<<"s", "e", "c", "u", "r", "e", "_", "b", "l", "o", "o", "m", "_", "s", "s", "e">>)
HmacSalt ==
    Str(<<"h", "m", "a", "c", "_", "b", "l", "i", "n", "d", "_", "i", "n", "d", "e", "x">>)

\* str.encode(): UTF-8 of ASCII text is the code points themselves
utf8_encode(s) == s

\* bytes.decode(): a byte above 127 never stands alone in UTF-8
utf8_decode(b) ==
    IF \E i \in DOMAIN b : b[i] > 127 THEN Raised("UnicodeDecodeError") ELSE Returned(b)

\* PBKDF2HMAC(SHA256, length=32, salt, iterations).derive(raw_key)
PBKDF2HMAC_derive(raw_key, salt) ==
    [i \in 1..KdfLength |-> Digest(raw_key \o <<0>> \o salt, i) % 256]

urlsafe_b64encode(b) == b64encode(b)

NonAscii == 66

\* base64.urlsafe_b64decode of a str: ValueError on a non-ASCII character,
\* then the non-strict decoder
urlsafe_b64decode(s) ==
    IF \E i \in DOMAIN s : s[i] = NonAscii THEN Raised("ValueError") ELSE b64decode(s)

\* EncryptionService._load_aes_key
_load_aes_key(env) == urlsafe_b64encode(PBKDF2HMAC_derive(utf8_encode(env), AesSalt))

\* EncryptionService._load_hmac_key
_load_hmac_key(env) == urlsafe_b64encode(PBKDF2HMAC_derive(utf8_encode(env), HmacSalt))

\* the key stream byte at position i
KeyStream(mix, i) == (mix + (17 * i)) % 256

KeyMix(key, nonce) == (SumSeq(key) + SumSeq(nonce)) % 256

GcmBody(key, nonce, data) ==
    LET mix == KeyMix(key, nonce)
    IN  [i \in DOMAIN data |-> (data[i] + KeyStream(mix, i)) % 256]

GcmPlain(key, nonce, body) ==
    LET mix == KeyMix(key, nonce)
    IN  [i \in DOMAIN body |-> (body[i] + 256 - KeyStream(mix, i)) % 256]

RECURSIVE Lane(_, _)
Lane(m, i) ==
    IF i > Len(m) THEN 0
    ELSE ((2 * ((i - 1) \div TagLen) + 1) * m[i]) + Lane(m, i + TagLen)

\* the 16-byte authentication tag over (nonce, associated data, body)
GcmTag(key, nonce, aad, body) ==
    LET m == <<Len(aad)>> \o aad \o <<Len(body)>> \o body \o <<Len(nonce)>> \o nonce
        k == SumSeq(key) % 256
    IN  [j \in 1..TagLen |-> (k + (31 * j) + Lane(m, j)) % 256]

\* AESGCM.encrypt(nonce, data, associated_data): body followed by the tag;
\* associated_data None is the empty byte string
AESGCM_encrypt(key, nonce, data, aad) ==
    LET body == GcmBody(key, nonce, data)
    IN  body \o GcmTag(key, nonce, aad, body)

\* AESGCM.decrypt(nonce, data, associated_data)
AESGCM_decrypt(key, nonce, data, aad) ==
    IF Len(nonce) < 8 \/ Len(nonce) > 128 THEN Raised("ValueError")
    ELSE IF Len(data) < TagLen THEN Raised("InvalidTag")
    ELSE LET body == SubSeq(data, 1, Len(data) - TagLen)
             tag == SubSeq(data, Len(data) - TagLen + 1, Len(data))
         IN  IF tag # GcmTag(key, nonce, aad, body) THEN Raised("InvalidTag")
             ELSE Returned(GcmPlain(key, nonce, body))

----------------------------------------------------------------------------
(* app/encryption.py: EncryptionService *)

\* ciphertext[-16:]
Last16(b) == SubSeq(b, IF Len(b) > TagLen THEN Len(b) - TagLen + 1 ELSE 1, Len(b))

\* EncryptionService.encrypt_data, with the iv secrets.token_bytes(12) drew
encrypt_data(key, p, iv) ==
    LET ciphertext == AESGCM_encrypt(key, iv, utf8_encode(p), <<>>)
    IN  [ciphertext |-> urlsafe_b64encode(ciphertext),
         iv |-> urlsafe_b64encode(iv),
         tag |-> urlsafe_b64encode(Last16(ciphertext))]

\* the body of the try block of decrypt_data
decrypt_try(key, ciphertext, iv, tag) ==
    LET ct == urlsafe_b64decode(ciphertext)
        iv_bytes == urlsafe_b64decode(iv)
        tag_bytes == urlsafe_b64decode(tag)
    IN  IF ct.exc # NoExc THEN ct
        ELSE IF iv_bytes.exc # NoExc THEN iv_bytes
        ELSE IF tag_bytes.exc # NoExc THEN tag_bytes
        ELSE LET data == AESGCM_decrypt(key, iv_bytes.val, ct.val, tag_bytes.val)
             IN  IF data.exc # NoExc THEN data ELSE utf8_decode(data.val)

\* the exceptions the library calls raise; all of them derive from Exception
Exceptions ==
    {"binascii.Error", "ValueError", "InvalidTag", "UnicodeDecodeError", "AttributeError"}

decrypt_data_except_invalid_tag(key, ciphertext, iv, tag) ==
    LET r == decrypt_try(key, ciphertext, iv, tag)
    IN  IF r.exc = NoExc THEN [raised |-> NoExc, value |-> Some(r.val)]
        ELSE IF r.exc = "InvalidTag" THEN [raised |-> NoExc, value |-> None]
        ELSE [raised |-> r.exc, value |-> None]

decrypt_data_unverified(key, ciphertext, iv, tag) ==
    LET r == decrypt_try(key, ciphertext, iv, tag)
    IN  IF r.exc = NoExc THEN [raised |-> NoExc, value |-> Some(r.val)]
        ELSE IF r.exc = "InvalidTag" /\ Len(urlsafe_b64decode(ciphertext).val) >= TagLen
        THEN LET ct == urlsafe_b64decode(ciphertext).val
             IN  [raised |-> NoExc,
                  value |-> Some(GcmPlain(key, urlsafe_b64decode(iv).val,
                                          SubSeq(ct, 1, Len(ct) - TagLen)))]
        ELSE [raised |-> NoExc, value |-> None]

\* EncryptionService.decrypt_data: what it raises to the caller, and the value
\* it returns (None, or the decoded plaintext)
decrypt_data(key, ciphertext, iv, tag) ==
    LET r == decrypt_try(key, ciphertext, iv, tag)
    IN  IF r.exc = NoExc THEN [raised |-> NoExc, value |-> Some(r.val)]
        ELSE IF r.exc \in Exceptions THEN [raised |-> NoExc, value |-> None]
        ELSE [raised |-> r.exc, value |-> None]

\* the object hashes.SHA256() passed as digestmod: an instance of the
\* cryptography library's class, which is not callable, not a str, and has no
\* attribute "new"
hashes_SHA256 == [callable |-> FALSE, is_str |-> FALSE, has_new |-> FALSE]

\* stands for HMAC-SHA256(key, msg).digest()
HmacDigest(key, msg) == [i \in 1..DigestSize |-> Digest(key \o <<0>> \o msg, i) % 256]

\* hmac.new(key, msg, digestmod): the digest constructor is digestmod itself
\* when callable, hashlib.new(digestmod) for a name, else digestmod.new
hmac_new(key, msg, digestmod) ==
    IF digestmod.callable \/ digestmod.is_str \/ digestmod.has_new
    THEN Returned(HmacDigest(key, msg))
    ELSE Raised("AttributeError")

HexDigit(n) == IF n < 10 THEN 48 + n ELSE 87 + n

RECURSIVE Hex(_)
\* bytes.hex()
Hex(b) ==
    IF b = <<>> THEN <<>>
    ELSE <<HexDigit(Head(b) \div 16), HexDigit(Head(b) % 16)>> \o Hex(Tail(b))

\* EncryptionService.generate_hmac_token
generate_hmac_token(key, value) ==
    LET h == hmac_new(key, utf8_encode(value), hashes_SHA256)
    IN  IF h.exc # NoExc THEN h ELSE Returned(Hex(h.val))

----------------------------------------------------------------------------
(* Bounds and operations of the cipher *)

MaxPlainLen == 2
MaxNonces == 2

Secrets == {Str(<<"k">>), Str(<<"s", "e", "c">>)}

Plaintexts == SeqsUpTo({Ord("a"), Ord("b")}, MaxPlainLen)

\* values secrets.token_bytes(12) may return
NonceOf(n) == [i \in 1..NonceLen |-> ((n * 37) + i) % 256]
Nonces == {NonceOf(n) : n \in 1..MaxNonces}

\* byte ^ (1 << k)
FlipBit(byte, k) == IF BitSet(byte, k) THEN byte - Pow2(k) ELSE byte + Pow2(k)

FlipByteBit(b, pos, k) == [b EXCEPT ![pos] = FlipBit(@, k)]

\* texts that are not the base64 of the expected bytes: the empty text, seven
\* alphabet characters ("invalid"), a non-ASCII character, four alphabet
\* characters (three bytes)
Malformed ==
    {<<>>, <<34, 39, 47, 26, 37, 34, 29>>, <<NonAscii>>, <<0, 0, 0, 0>>}

CipherIdle ==
    /\ aes_key = <<>>
    /\ plaintext = <<>>
    /\ sealed = None
    /\ presented = None
    /\ opened = None

CipherInit ==
    /\ \E env \in Secrets : aes_key = _load_aes_key(env)
    /\ plaintext \in Plaintexts
    /\ sealed = None
    /\ presented = None
    /\ opened = None

\* encrypt_data(plaintext)
Encrypt ==
    /\ sealed = None
    /\ \E iv \in Nonces : sealed' = Some(encrypt_data(aes_key, plaintext, iv))
    /\ UNCHANGED <<aes_key, plaintext, presented, opened, notCipher>>

\* the caller passes the three returned values on unchanged
PresentSame ==
    /\ sealed # None
    /\ presented = None
    /\ presented' = Some([ciphertext |-> sealed[1].ciphertext, iv |-> sealed[1].iv,
                          tag |-> sealed[1].tag, how |-> "same"])
    /\ UNCHANGED <<aes_key, plaintext, sealed, opened, notCipher>>

\* one bit of the ciphertext is changed, in its bytes or in its text
FlipCiphertextBit ==
    /\ sealed # None
    /\ presented = None
    /\ \E c \in
          {urlsafe_b64encode(FlipByteBit(urlsafe_b64decode(sealed[1].ciphertext).val, pos, k)) :
              pos \in 1..Len(urlsafe_b64decode(sealed[1].ciphertext).val), k \in 0..7}
          \cup {FlipByteBit(sealed[1].ciphertext, pos, k) :
                  pos \in {i \in DOMAIN sealed[1].ciphertext : sealed[1].ciphertext[i] < Pad},
                  k \in 0..5} :
          presented' = Some([ciphertext |-> c, iv |-> sealed[1].iv,
                             tag |-> sealed[1].tag, how |-> "ciphertext bit"])
    /\ UNCHANGED <<aes_key, plaintext, sealed, opened, notCipher>>

\* one bit of the tag is changed, in its bytes or in its text
FlipTagBit ==
    /\ sealed # None
    /\ presented = None
    /\ \E t \in
          {urlsafe_b64encode(FlipByteBit(urlsafe_b64decode(sealed[1].tag).val, pos, k)) :
              pos \in 1..Len(urlsafe_b64decode(sealed[1].tag).val), k \in 0..7}
          \cup {FlipByteBit(sealed[1].tag, pos, k) :
                  pos \in {i \in DOMAIN sealed[1].tag : sealed[1].tag[i] < Pad},
                  k \in 0..5} :
          presented' = Some([ciphertext |-> sealed[1].ciphertext, iv |-> sealed[1].iv,
                             tag |-> t, how |-> "tag bit"])
    /\ UNCHANGED <<aes_key, plaintext, sealed, opened, notCipher>>

\* any other triple: malformed or undersized texts, the iv of another call,
\* the ciphertext with a character outside the alphabet put in front
PresentOther ==
    /\ sealed # None
    /\ presented = None
    /\ \E c \in Malformed \cup {sealed[1].ciphertext, <<NonAlphabet>> \o sealed[1].ciphertext,
                                SubSeq(sealed[1].ciphertext, 1, 20)},
          i \in Malformed \cup {sealed[1].iv} \cup {urlsafe_b64encode(n) : n \in Nonces},
          t \in Malformed \cup {sealed[1].tag} :
          /\ <<c, i, t>> # <<sealed[1].ciphertext, sealed[1].iv, sealed[1].tag>>
          /\ presented' = Some([ciphertext |-> c, iv |-> i, tag |-> t, how |-> "other"])
    /\ UNCHANGED <<aes_key, plaintext, sealed, opened, notCipher>>

\* decrypt_data(ciphertext, iv, tag)
Decrypt ==
    /\ presented # None
    /\ opened = None
    /\ opened' = Some(decrypt_data(aes_key, presented[1].ciphertext, presented[1].iv,
                                   presented[1].tag))
    /\ UNCHANGED <<aes_key, plaintext, sealed, presented, notCipher>>

CipherNext ==
    Encrypt \/ PresentSame \/ FlipCiphertextBit \/ FlipTagBit \/ PresentOther \/ Decrypt

----------------------------------------------------------------------------
(* Bounds and operations of the blind index *)

MaxCalls == 2

HmacValues == SeqsUpTo({Ord("a"), Ord("b")}, 2)

HmacIdle ==
    /\ hmac_key = <<>>
    /\ calls = <<>>

HmacInit ==
    /\ \E env \in Secrets : hmac_key = _load_hmac_key(env)
    /\ calls = [t \in HmacValues |-> <<>>]

\* generate_hmac_token(t)
GenerateToken ==
    \E t \in HmacValues :
        /\ Len(calls[t]) < MaxCalls
        /\ calls' = [calls EXCEPT ![t] = Append(@, generate_hmac_token(hmac_key, t))]
        /\ UNCHANGED <<hmac_key, notHmac>>

HmacNext == GenerateToken

----------------------------------------------------------------------------
(* app/routes.py *)

\* json.dumps of the payload {name, dob, diagnosis}: the three fields between
\* braces, separated by commas
json_dumps(d) == <<123>> \o d.name \o <<44>> \o d.dob \o <<44>> \o d.diagnosis \o <<125>>

\* the positions of the commas of a text
Commas(s) == {i \in DOMAIN s : s[i] = 44}

\* json.loads of such a text
json_loads(s) ==
    IF Len(s) < 4 \/ s[1] # 123 \/ s[Len(s)] # 125 \/ Cardinality(Commas(s)) # 2
    THEN Raised("JSONDecodeError")
    ELSE LET c1 == CHOOSE i \in Commas(s) : \A j \in Commas(s) : i <= j
             c2 == CHOOSE i \in Commas(s) : \A j \in Commas(s) : j <= i
         IN  Returned([name |-> SubSeq(s, 2, c1 - 1), dob |-> SubSeq(s, c1 + 1, c2 - 1),
                       diagnosis |-> SubSeq(s, c2 + 1, Len(s) - 1)])

\* [encryption_service.generate_hmac_token(trigram) for trigram in trigrams]
hmac_tokens_of(key, l) ==
    IF \E i \in DOMAIN l : generate_hmac_token(key, l[i]).exc # NoExc
    THEN Raised(generate_hmac_token(key, l[1]).exc)
    ELSE Returned([i \in DOMAIN l |-> generate_hmac_token(key, l[i]).val])

RECURSIVE Descending(_)
\* order_by(Patient.id.desc())
Descending(rows) ==
    IF rows = {} THEN <<>>
    ELSE LET top == CHOOSE r \in rows : \A q \in rows : q.id <= r.id
         IN  <<top>> \o Descending(rows \ {top})

RECURSIVE Responses(_, _)
\* the loop over the fetched patients: a record decrypt_data returns nothing
\* for is skipped, the others are parsed and appended
Responses(key, rows) ==
    IF rows = <<>> THEN Returned(<<>>)
    ELSE LET patient == Head(rows)
             decrypted == decrypt_data(key, patient.ciphertext, patient.iv, patient.tag)
             rest == Responses(key, Tail(rows))
         IN  IF decrypted.raised # NoExc THEN Raised(decrypted.raised)
             ELSE IF decrypted.value = None \/ decrypted.value = Some(<<>>) THEN rest
             ELSE IF json_loads(decrypted.value[1]).exc # NoExc
                  THEN Raised(json_loads(decrypted.value[1]).exc)
             ELSE IF rest.exc # NoExc THEN rest
             ELSE Returned(<<[id |-> patient.id, data |-> json_loads(decrypted.value[1]).val]>>
                           \o rest.val)

\* the rows the first statement of search_patient_records selects
MatchingIds(rows, tokens, user, hmac_tokens) ==
    {p.id : p \in {q \in rows : /\ q.owner_user_id = user
                                /\ \E t \in tokens : /\ t.patient_id = q.id
                                                     /\ t.token \in Range(hmac_tokens)}}

search_no_short_circuit(rows, tokens, akey, hkey, user, l) ==
    LET hmac_tokens == hmac_tokens_of(hkey, l)
    IN  IF hmac_tokens.exc # NoExc
        THEN [status |-> 500, body |-> <<>>, statements |-> <<>>, candidates |-> {}]
        ELSE [status |-> 200, body |-> <<>>, statements |-> <<"select patient ids by token">>,
              candidates |-> MatchingIds(rows, tokens, user, hmac_tokens.val)]

\* search_patient_records for caller user, l being the list generate_trigrams(query)
\* returned: the response, the statements run on the tables, the ids resolved
search_patient_records(rows, tokens, akey, hkey, user, l) ==
    IF l = <<>>
    THEN [status |-> 200, body |-> <<>>, statements |-> <<>>, candidates |-> {}]
    ELSE LET hmac_tokens == hmac_tokens_of(hkey, l)
         IN  IF hmac_tokens.exc # NoExc
             THEN [status |-> 500, body |-> <<>>, statements |-> <<>>, candidates |-> {}]
             ELSE LET patient_ids == MatchingIds(rows, tokens, user, hmac_tokens.val)
                      fetched == Descending({p \in rows : /\ p.owner_user_id = user
                                                          /\ p.id \in patient_ids})
                      response == Responses(akey, fetched)
                  IN  IF patient_ids = {}
                      THEN [status |-> 200, body |-> <<>>,
                            statements |-> <<"select patient ids by token">>,
                            candidates |-> {}]
                      ELSE IF response.exc # NoExc
                      THEN [status |-> 500, body |-> <<>>,
                            statements |-> <<"select patient ids by token",
                                             "select patients by id">>,
                            candidates |-> patient_ids]
                      ELSE [status |-> 200, body |-> response.val,
                            statements |-> <<"select patient ids by token",
                                             "select patients by id">>,
                            candidates |-> patient_ids]

\* the response of get_patient_record for a row already selected
OpenRecord(akey, patient) ==
    LET decrypted == decrypt_data(akey, patient.ciphertext, patient.iv, patient.tag)
    IN  IF decrypted.raised # NoExc \/ decrypted.value = None \/ decrypted.value = Some(<<>>)
        THEN [status |-> 500, body |-> <<>>]
        ELSE IF json_loads(decrypted.value[1]).exc # NoExc
        THEN [status |-> 500, body |-> <<>>]
        ELSE [status |-> 200,
              body |-> <<[id |-> patient.id, data |-> json_loads(decrypted.value[1]).val]>>]

get_patient_record_any_owner(rows, akey, user, patient_id) ==
    LET found == {p \in rows : p.id = patient_id}
    IN  IF found = {} THEN [status |-> 404, body |-> <<>>]
        ELSE OpenRecord(akey, CHOOSE p \in found : TRUE)

\* get_patient_record(patient_id) for caller user: the row with this id and
\* this owner, or 404 (patients.id is the primary key: at most one row)
get_patient_record(rows, akey, user, patient_id) ==
    LET found == {p \in rows : p.id = patient_id /\ p.owner_user_id = user}
    IN  IF found = {} THEN [status |-> 404, body |-> <<>>]
        ELSE OpenRecord(akey, CHOOSE p \in found : TRUE)

----------------------------------------------------------------------------
(* Bounds and operations of the patient routes *)

MaxUsers == 2
MaxPatients == 1
MaxQueryLen == 3

Users == 1..MaxUsers

\* name and diagnosis of a payload (each at least one character)
Fields == {Str(<<"!">>), Str(<<"a">>)}

Dob == Str(<<"1", "9", "9", "0">>)

\* query texts (at least one character)
Queries ==
    (SeqsUpTo({Ord("a"), Ord("b")}, MaxQueryLen) \ {<<>>}) \cup {Str(<<"a", " ", "a">>)}

\* the configured secrets os.getenv reads
AES_KEY == Str(<<"k">>)
HMAC_KEY == Str(<<"s", "e", "c">>)

NoRequest ==
    [handler |-> "none", user |-> 0, input |-> <<>>, status |-> 0, body |-> <<>>,
     statements |-> <<>>, candidates |-> {}]

SearchIdle ==
    /\ patients = {}
    /\ search_tokens = {}
    /\ next_patient_id = 1
    /\ request = NoRequest
    /\ texts = {}

\* the module-level EncryptionService of routes.py and an empty database
SearchInit ==
    /\ aes_key = _load_aes_key(AES_KEY)
    /\ hmac_key = _load_hmac_key(HMAC_KEY)
    /\ plaintext = <<>>
    /\ sealed = None
    /\ presented = None
    /\ opened = None
    /\ calls = <<>>
    /\ patients = {}
    /\ search_tokens = {}
    /\ next_patient_id = 1
    /\ request = NoRequest
    /\ texts = {}

\* POST /patients/ by an authenticated user: the row is flushed, then the
\* tokens are computed; an exception leaves the session uncommitted, so that
\* closing it rolls the row back. The iv drawn for a request differs from the
\* ivs of the requests before it.
CreatePatient ==
    \E user \in Users, name \in Fields, diagnosis \in Fields,
       iv \in {NonceOf(next_patient_id)} :
        LET data == [name |-> name, dob |-> Dob, diagnosis |-> diagnosis]
            record == encrypt_data(aes_key, json_dumps(data), iv)
            patient == [id |-> next_patient_id, owner_user_id |-> user,
                        ciphertext |-> record.ciphertext, iv |-> record.iv,
                        tag |-> record.tag]
            searchable_text == name \o <<32>> \o diagnosis
        IN  /\ next_patient_id <= MaxPatients
            /\ next_patient_id' = next_patient_id + 1
            /\ texts' = texts \cup {[id |-> next_patient_id, owner_user_id |-> user,
                                       searchable_text |-> searchable_text]}
            /\ \E l \in generate_trigrams(searchable_text) :
                  LET hmac_tokens == hmac_tokens_of(hmac_key, l)
                  IN  IF hmac_tokens.exc # NoExc
                      THEN /\ UNCHANGED <<patients, search_tokens>>
                           /\ request' = [NoRequest EXCEPT !.handler = "create_patient",
                                             !.user = user, !.input = searchable_text,
                                             !.status = 500,
                                             !.statements = <<"insert patient">>]
                      ELSE /\ patients' = patients \cup {patient}
                           /\ search_tokens' = search_tokens \cup
                                 {[patient_id |-> patient.id, token |-> hmac_tokens.val[i]] :
                                     i \in DOMAIN hmac_tokens.val}
                           /\ request' = [NoRequest EXCEPT !.handler = "create_patient",
                                             !.user = user, !.input = searchable_text,
                                             !.status = 201, !.body = <<patient.id>>,
                                             !.statements = <<"insert patient",
                                                              "insert tokens", "commit">>]
            /\ UNCHANGED notSearch

\* GET /patients/search?query=... by an authenticated user
SearchPatientRecords ==
    \E user \in Users, query \in Queries :
        /\ \E l \in generate_trigrams(query) :
              LET r == search_patient_records(patients, search_tokens, aes_key, hmac_key,
                                              user, l)
              IN  request' = [handler |-> "search_patient_records", user |-> user,
                              input |-> query, status |-> r.status, body |-> r.body,
                              statements |-> r.statements, candidates |-> r.candidates]
        /\ UNCHANGED <<patients, search_tokens, next_patient_id, texts, notSearch>>

\* GET /patients/{patient_id} by an authenticated user, for the id of a
\* stored record or another id
GetPatientRecord ==
    \E user \in Users, patient_id \in 1..(MaxPatients + 1) :
        LET r == get_patient_record(patients, aes_key, user, patient_id)
        IN  /\ request' = [handler |-> "get_patient_record", user |-> user,
                           input |-> <<patient_id>>, status |-> r.status, body |-> r.body,
                           statements |-> <<"select patient by id">>, candidates |-> {}]
            /\ UNCHANGED <<patients, search_tokens, next_patient_id, texts, notSearch>>

SearchNext == CreatePatient \/ SearchPatientRecords \/ GetPatientRecord

----------------------------------------------------------------------------
(* create_patient step by step: the handler is suspended at await db.flush() *)
(* and at await db.commit(), and other requests run in between. Every        *)
(* request has its own AsyncSession (get_session), whose transaction the     *)
(* database keeps apart from the committed rows until it commits.            *)

MaxSlots == 2
MaxWrites == 2

Slots == 1..MaxSlots

NoSession == [pc |-> "none", user |-> 0, searchable_text |-> <<>>, patient |-> None]

WriteIdle == inflight = <<>>

WriteInit ==
    /\ aes_key = _load_aes_key(AES_KEY)
    /\ hmac_key = _load_hmac_key(HMAC_KEY)
    /\ plaintext = <<>>
    /\ sealed = None
    /\ presented = None
    /\ opened = None
    /\ calls = <<>>
    /\ patients = {}
    /\ search_tokens = {}
    /\ next_patient_id = 1
    /\ request = NoRequest
    /\ texts = {}
    /\ inflight = [slot \in Slots |-> NoSession]

\* await db.commit(): the rows of the session's transaction join the table
session_commit(table, pending) == table \cup pending

session_close_commits(table, pending) == table \cup pending

\* leaving "async with AsyncSessionLocal() as session" with the transaction
\* open (an exception went through the handler): the transaction is rolled
\* back and the table is as it was
session_close(table, pending) == table

\* create_patient up to await db.flush(): the payload is sealed, the row is
\* inserted in the session's transaction and gets its id from the sequence
BeginCreate(slot) ==
    \E user \in Users, name \in Fields, diagnosis \in Fields :
        LET data == [name |-> name, dob |-> Dob, diagnosis |-> diagnosis]
            record == encrypt_data(aes_key, json_dumps(data), NonceOf(next_patient_id))
            patient == [id |-> next_patient_id, owner_user_id |-> user,
                        ciphertext |-> record.ciphertext, iv |-> record.iv,
                        tag |-> record.tag]
            searchable_text == name \o <<32>> \o diagnosis
        IN  /\ inflight[slot].pc = "none"
            /\ next_patient_id <= MaxWrites
            /\ next_patient_id' = next_patient_id + 1
            /\ texts' = texts \cup {[id |-> next_patient_id, owner_user_id |-> user,
                                       searchable_text |-> searchable_text]}
            /\ inflight' = [inflight EXCEPT ![slot] =
                               [pc |-> "flushed", user |-> user,
                                searchable_text |-> searchable_text,
                                patient |-> Some(patient)]]
            /\ UNCHANGED <<patients, search_tokens, request, notWrite>>

\* the database fails during await db.flush() or await db.commit(): the
\* exception ends the handler and the session is closed
FailWrite(slot) ==
    /\ inflight[slot].pc = "flushed"
    /\ patients' = session_close(patients, {inflight[slot].patient[1]})
    /\ search_tokens' = session_close(search_tokens, {})
    /\ request' = [NoRequest EXCEPT !.handler = "create_patient",
                      !.user = inflight[slot].user,
                      !.input = inflight[slot].searchable_text,
                      !.status = 500, !.statements = <<"insert patient", "database error">>]
    /\ inflight' = [inflight EXCEPT ![slot] = NoSession]
    /\ UNCHANGED <<next_patient_id, texts, notWrite>>

\* create_patient after await db.flush(): the tokens are computed and the
\* token rows are added, then the transaction is committed; an exception of
\* generate_hmac_token ends the handler before the commit
FinishCreate(slot) ==
    /\ inflight[slot].pc = "flushed"
    /\ \E l \in generate_trigrams(inflight[slot].searchable_text) :
          LET patient == inflight[slot].patient[1]
              hmac_tokens == hmac_tokens_of(hmac_key, l)
              rows == {[patient_id |-> patient.id, token |-> hmac_tokens.val[i]] :
                          i \in DOMAIN hmac_tokens.val}
              answer == [NoRequest EXCEPT !.handler = "create_patient",
                            !.user = inflight[slot].user,
                            !.input = inflight[slot].searchable_text]
          IN  IF hmac_tokens.exc # NoExc
              THEN /\ patients' = session_close(patients, {patient})
                   /\ search_tokens' = session_close(search_tokens, {})
                   /\ request' = [answer EXCEPT !.status = 500,
                                     !.statements = <<"insert patient">>]
              ELSE /\ patients' = session_commit(patients, {patient})
                   /\ search_tokens' = session_commit(search_tokens, rows)
                   /\ request' = [answer EXCEPT !.status = 201, !.body = <<patient.id>>,
                                     !.statements = <<"insert patient", "insert tokens",
                                                      "commit">>]
    /\ inflight' = [inflight EXCEPT ![slot] = NoSession]
    /\ UNCHANGED <<next_patient_id, texts, notWrite>>

WriteNext == \E slot \in Slots : BeginCreate(slot) \/ FailWrite(slot) \/ FinishCreate(slot)

----------------------------------------------------------------------------
(* app/auth.py and app/auth_routes.py: sessions. A session token is a text,  *)
(* its stored hash is the HMAC-SHA256 of the token under the app secret,     *)
(* kept here as the term of its two arguments: two hashes are equal exactly  *)
(* when secret and token are. Time is counted in hours.                      *)

MaxSessions == 2

\* settings.session_ttl_hours
SessionTtlHours == 1

\* the clock stops an hour after a session created at hour 0 has expired
MaxTime == SessionTtlHours + 1

APP_SECRET == Str(<<"s">>)

\* the token secrets.token_urlsafe(32) returns at the n-th login: a text
\* that no login before returned
generate_session_token(n) == <<64 + n>>

\* hash_session_token
hash_session_token(token) == [hmac |-> APP_SECRET, msg |-> token]

\* session_expiry
session_expiry(t) == t + SessionTtlHours

get_active_session_ignore_revoked(rows, token, t) ==
    LET token_hash == hash_session_token(token)
        found == {r \in rows : /\ r.session_token_hash = token_hash
                               /\ r.expires_at > t}
    IN  IF found = {} THEN None ELSE Some(CHOOSE r \in found : TRUE)

\* get_active_session: the row of the token's hash that is not revoked and
\* not expired at time t, or None (session_token_hash is unique)
get_active_session(rows, token, t) ==
    LET token_hash == hash_session_token(token)
        found == {r \in rows : /\ r.session_token_hash = token_hash
                               /\ r.revoked_at = None
                               /\ r.expires_at > t}
    IN  IF found = {} THEN None ELSE Some(CHOOSE r \in found : TRUE)

\* get_current_user, token being what _read_token found in the request, if
\* anything
get_current_user(rows, token, t) ==
    IF token = None \/ token = Some(<<>>) THEN [status |-> 401, user |-> 0]
    ELSE LET active == get_active_session(rows, token[1], t)
         IN  IF active = None THEN [status |-> 401, user |-> 0]
             ELSE [status |-> 200, user |-> active[1].user_id]

\* get_current_session_token_hash
get_current_session_token_hash(rows, token, t) ==
    IF token = None \/ token = Some(<<>>) THEN [status |-> 401, token_hash |-> None]
    ELSE LET active == get_active_session(rows, token[1], t)
         IN  IF active = None THEN [status |-> 401, token_hash |-> None]
             ELSE [status |-> 200, token_hash |-> Some(active[1].session_token_hash)]

\* the tokens a client may present: none, one a login returned or will
\* return, one no login returns
PresentedTokens == {None} \cup {Some(generate_session_token(n)) : n \in 1..(MaxSessions + 1)}

NoAuth == [handler |-> "none", token |-> None, status |-> 0, user |-> 0,
           was_logged_out |-> FALSE, was_unexpired |-> FALSE]

AuthIdle ==
    /\ sessions = {}
    /\ now = 0
    /\ issued = {}
    /\ logouts = {}
    /\ logged_out = {}
    /\ auth = NoAuth

AuthInit == AuthIdle

WasLoggedOut(token) == token # None /\ token[1] \in logged_out

\* a login handed the token out and the expiry it set has not passed
WasUnexpired(token) == \E g \in issued : token = Some(g.token) /\ g.expires_at > now

\* POST /auth/login with the credentials of a registered user
LoginUser ==
    \E user \in Users :
        LET token == generate_session_token(Cardinality(issued) + 1)
            new_session == [id |-> Cardinality(sessions) + 1, user_id |-> user,
                            session_token_hash |-> hash_session_token(token),
                            expires_at |-> session_expiry(now), revoked_at |-> None]
        IN  /\ Cardinality(sessions) < MaxSessions
            /\ sessions' = sessions \cup {new_session}
            /\ issued' = issued \cup {[token |-> token, user |-> user,
                                        expires_at |-> session_expiry(now)]}
            /\ UNCHANGED <<now, logouts, logged_out, auth, notAuth>>

\* any request to a route that depends on get_current_user
GetCurrentUser ==
    \E token \in PresentedTokens :
        LET r == get_current_user(sessions, token, now)
        IN  /\ auth' = [handler |-> "get_current_user", token |-> token,
                        status |-> r.status, user |-> r.user,
                        was_logged_out |-> WasLoggedOut(token),
                        was_unexpired |-> WasUnexpired(token)]
            /\ UNCHANGED <<sessions, now, issued, logouts, logged_out, notAuth>>

\* POST /auth/logout, the dependency get_current_session_token_hash has
\* found the active session: the handler runs later with its hash (a 401 of
\* the dependency ends the request and changes nothing)
BeginLogout ==
    \E token \in PresentedTokens :
        LET r == get_current_session_token_hash(sessions, token, now)
        IN  /\ r.status = 200
            /\ [token |-> token[1], token_hash |-> r.token_hash[1]] \notin logouts
            /\ logouts' = logouts \cup {[token |-> token[1],
                                         token_hash |-> r.token_hash[1]]}
            /\ UNCHANGED <<sessions, now, issued, logged_out, auth, notAuth>>

\* POST /auth/logout, the handler logout_user: the row of the hash gets
\* revoked_at = now and the transaction is committed
FinishLogout ==
    \E l \in logouts :
        /\ sessions' = {IF r.session_token_hash = l.token_hash
                        THEN [r EXCEPT !.revoked_at = Some(now)] ELSE r : r \in sessions}
        /\ logouts' = logouts \ {l}
        /\ logged_out' = logged_out \cup {l.token}
        /\ UNCHANGED <<now, issued, auth, notAuth>>

\* an hour passes
Tick ==
    /\ now < MaxTime
    /\ now' = now + 1
    /\ UNCHANGED <<sessions, issued, logouts, logged_out, auth, notAuth>>

AuthNext == LoginUser \/ GetCurrentUser \/ BeginLogout \/ FinishLogout \/ Tick

----------------------------------------------------------------------------
(* Properties of the patient routes *)

\* C9: a query whose normalized text has fewer than 3 characters gets an empty
\* result, and search_patient_records runs no token lookup and no record fetch
\* on the tables, whatever records are stored.
C9_ShortQueryShortCircuit ==
    (request.handler = "search_patient_records" /\ Len(normalize_string(request.input)) < 3) =>
        /\ request.status = 200
        /\ request.body = <<>>
        /\ request.statements = <<>>

C9_Witness ==
    /\ request.handler = "search_patient_records"
    /\ request.input = Str(<<"a", "b">>)
    /\ patients # {}
    /\ request.status = 200
    /\ request.statements = <<>>

StoredRows(id) == {p \in patients : p.id = id}
StoredTokens(id) == {t.token : t \in {x \in search_tokens : x.patient_id = id}}

\* the token set of a searchable text: the tokens of its trigrams
TokenSetOf(searchable_text) ==
    hmac_tokens_of(hmac_key, CHOOSE l \in generate_trigrams(searchable_text) : TRUE)

\* C12: whatever create_patient, search_patient_records and get_patient_record
\* calls the users made before, every record a search or a read returns, and
\* every candidate id a search resolves, is a stored record owned by the
\* caller; get_patient_record for a record of another user answers 404.
C12_OwnerScoped ==
    /\ request.handler \in {"search_patient_records", "get_patient_record"} =>
          \A i \in DOMAIN request.body :
              \E p \in patients : /\ p.id = request.body[i].id
                                  /\ p.owner_user_id = request.user
    /\ request.handler = "search_patient_records" =>
          \A id \in request.candidates :
              \E p \in patients : p.id = id /\ p.owner_user_id = request.user
    /\ request.handler = "get_patient_record" =>
          ((\E p \in patients : /\ p.id = request.input[1]
                                /\ p.owner_user_id # request.user)
              => request.status = 404)

\* a user asked for the stored record of another user and got 404
C12_Witness ==
    /\ request.handler = "get_patient_record"
    /\ request.status = 404
    /\ \E p \in patients : p.id = request.input[1] /\ p.owner_user_id # request.user

\* C13: a search whose query has a trigram resolves its candidates by the
\* token lookup, and the ids it resolves are exactly the records of the caller
\* whose stored tokens have at least one token of the query's token set.
C13_AnyTokenMatch ==
    (request.handler = "search_patient_records" /\ TrigramSet(request.input) # {}) =>
        /\ request.statements # <<>>
        /\ request.statements[1] = "select patient ids by token"
        /\ TokenSetOf(request.input).exc = NoExc
        /\ request.candidates =
              {p.id : p \in {q \in patients :
                  /\ q.owner_user_id = request.user
                  /\ StoredTokens(q.id) \cap Range(TokenSetOf(request.input).val) # {}}}

\* q occurs in s as a contiguous substring
IsSubstring(q, s) == \E i \in 0..(Len(s) - Len(q)) : SubSeq(s, i + 1, i + Len(q)) = q

\* C17: when the normalized query has at least 3 characters and occurs in the
\* normalized searchable text of a create_patient call of the same user, the
\* trigrams of the query are trigrams of that text, and the record of that
\* call is among the candidate ids of the search, whatever was created since.
C17_SubstringFound ==
    request.handler = "search_patient_records" =>
        \A w \in texts :
            (/\ w.owner_user_id = request.user
             /\ Len(normalize_string(request.input)) >= 3
             /\ IsSubstring(normalize_string(request.input),
                            normalize_string(w.searchable_text)))
            => /\ TrigramSet(request.input) \subseteq TrigramSet(w.searchable_text)
               /\ w.id \in request.candidates

\* C11: in every state of the committed tables, whatever create_patient calls
\* are suspended and whichever have failed, each create_patient call has
\* either its Patient row and exactly the tokens of its token set stored, or
\* neither the row nor any token; no token row is without its Patient row.
C11_WriteAtomic ==
    /\ \A w \in texts :
          \/ StoredRows(w.id) = {} /\ StoredTokens(w.id) = {}
          \/ /\ Cardinality(StoredRows(w.id)) = 1
             /\ TokenSetOf(w.searchable_text).exc = NoExc
             /\ StoredTokens(w.id) = Range(TokenSetOf(w.searchable_text).val)
    /\ \A t \in search_tokens : StoredRows(t.patient_id) # {}

\* a create_patient call failed after its row was flushed, while another
\* call is suspended after its flush: nothing of the failed call is stored
C11_Witness ==
    /\ request.handler = "create_patient"
    /\ request.status = 500
    /\ request.statements = <<"insert patient">>
    /\ \E w \in texts :
          /\ w.searchable_text = request.input
          /\ StoredRows(w.id) = {}
          /\ \A slot \in DOMAIN inflight :
                inflight[slot].patient = None \/ inflight[slot].patient[1].id # w.id
    /\ \E slot \in DOMAIN inflight : inflight[slot].pc = "flushed"

----------------------------------------------------------------------------
(* Properties of the sessions *)

\* C16: get_current_user answers 200 or 401, and 200 exactly when the token
\* presented is one a login handed out, no logout_user has completed for it
\* before the request, and its session has not expired at the time of the
\* request; the user returned is the one of that login. So a token is
\* rejected in every request after its logout, whatever logins and logouts of
\* other sessions happen, and those sessions stay valid until they expire.
C16_SessionValidity ==
    auth.handler = "get_current_user" =>
        LET grants == {g \in issued : auth.token = Some(g.token)}
        IN  /\ auth.status \in {200, 401}
            /\ auth.status = 200 <=> (~auth.was_logged_out /\ auth.was_unexpired)
            /\ auth.status = 200 => \E g \in grants : g.user = auth.user

\* a request with a token whose logout has completed is rejected, while the
\* session of another login is still accepted
C16_Witness ==
    /\ auth.handler = "get_current_user"
    /\ auth.was_logged_out
    /\ auth.status = 401
    /\ \E g \in issued :
          /\ Some(g.token) # auth.token
          /\ g.token \notin logged_out
          /\ get_current_user(sessions, Some(g.token), now).status = 200

----------------------------------------------------------------------------
(* Properties of the cipher and the blind index *)

\* C1: passing the three values encrypt_data(p) returned unchanged to
\* decrypt_data of the same service returns exactly p, never None.
C1_RoundTrip ==
    (opened # None /\ presented[1].how = "same") =>
        opened[1] = [raised |-> NoExc, value |-> Some(plaintext)]

\* C2: for every triple of input strings, decrypt_data raises nothing to the
\* caller and returns either None or the full plaintext of a sealed record
\* whose ciphertext and iv bytes are the ones presented.
C2_FailsClosed ==
    opened # None =>
        /\ opened[1].raised = NoExc
        /\ \/ opened[1].value = None
           \/ /\ opened[1].value = Some(plaintext)
              /\ urlsafe_b64decode(presented[1].ciphertext)
                    = urlsafe_b64decode(sealed[1].ciphertext)
              /\ urlsafe_b64decode(presented[1].iv) = urlsafe_b64decode(sealed[1].iv)

C2_Witness ==
    /\ opened # None
    /\ presented[1].how = "other"
    /\ urlsafe_b64decode(presented[1].ciphertext).exc = NoExc
    /\ urlsafe_b64decode(presented[1].iv).exc = NoExc
    /\ urlsafe_b64decode(presented[1].tag).exc = "binascii.Error"
    /\ opened[1] = [raised |-> NoExc, value |-> None]

\* C3: with one bit of the ciphertext or of the tag of a sealed record
\* changed and the rest unchanged, decrypt_data returns None.
C3_TamperDetected ==
    (opened # None /\ presented[1].how \in {"ciphertext bit", "tag bit"}) =>
        opened[1] = [raised |-> NoExc, value |-> None]

C3_Witness ==
    /\ opened # None
    /\ presented[1].how = "ciphertext bit"
    /\ Len(plaintext) > 0
    /\ urlsafe_b64decode(presented[1].ciphertext).exc = NoExc
    /\ opened[1].value = None

\* C8: generate_hmac_token(t) returns a token without raising, and every call
\* with the same t under the same key returns the same token, whatever calls
\* were made in between.
C8_TokenDeterministic ==
    \A t \in DOMAIN calls :
        \A i \in DOMAIN calls[t] :
            /\ calls[t][i].exc = NoExc
            /\ calls[t][i] = calls[t][1]

\* C14: the encryption key the service holds after initialization, and the
\* index key _load_hmac_key returns, have exactly 32 bytes, for every secret
\* configured.
C14_KeyLength ==
    /\ Len(aes_key) = KdfLength
    /\ \A env \in Secrets : Len(_load_hmac_key(env)) = KdfLength

----------------------------------------------------------------------------
(* Properties of the filter *)

\* C4: every value passed to add earlier on a filter is reported present by
\* check on that filter, in every state add and check calls can reach, for any
\* size >= 1 and hash_count >= 0.
C4_NoFalseNegatives ==
    /\ \A v \in added : check(filter, v)
    /\ (checked # None /\ checked[1].wasAdded) => checked[1].result

C4_Witness ==
    /\ checked # None
    /\ checked[1].wasAdded
    /\ checked[1].result
    /\ filter.hash_count > 1
    /\ Cardinality(added) > 1

\* C5 (as claimed): for every filter f, whatever its size and hash_count, and
\* every value v, deserialize(serialize(f)).check(v) equals f.check(v).
C5_RoundTripAnyFilter ==
    restored # None =>
        \A v \in BloomValues : check(restored[1], v) = check(serialized[1], v)

\* C5 (amended): for every filter f whose size is a multiple of 8 and whose
\* hash_count is the default 7, and every value v,
\* deserialize(serialize(f)).check(v) equals f.check(v).
C5_RoundTripDefaultShape ==
    (/\ restored # None
     /\ serialized[1].size % 8 = 0
     /\ serialized[1].hash_count = DefaultHashCount) =>
        \A v \in BloomValues : check(restored[1], v) = check(serialized[1], v)

C5_Witness ==
    /\ restored # None
    /\ serialized[1].size % 8 = 0
    /\ serialized[1].hash_count = DefaultHashCount
    /\ \E v \in BloomValues : check(restored[1], v) /\ check(serialized[1], v)
    /\ \E v \in BloomValues : ~check(restored[1], v) /\ ~check(serialized[1], v)

\* C15: when the filter.add calls of all threads have returned, whatever the
\* order in which their reads and stores of the bit array were run, check is
\* true for each value a thread added.
C15_ConcurrentAddsKeepBits ==
    (\A w \in DOMAIN writers : writers[w].pc = "done") =>
        \A w \in DOMAIN writers : check(filter, writers[w].value)

----------------------------------------------------------------------------
(* Properties of the text functions *)

\* C6: normalize_string is idempotent: normalizing its own result changes
\* nothing, for every input string.
C6_Idempotent == renormalized # None => renormalized[1] = normalized[1]

----------------------------------------------------------------------------
(* Specifications: one per component, the other components idle *)

InitText == TextInit /\ BloomIdle /\ CipherIdle /\ HmacIdle /\ SearchIdle /\ WriteIdle
            /\ RaceIdle /\ AuthIdle
SpecText == InitText /\ [][TextNext]_vars

InitBloom == BloomInit /\ TextIdle /\ CipherIdle /\ HmacIdle /\ SearchIdle /\ WriteIdle
            /\ RaceIdle /\ AuthIdle
SpecBloom == InitBloom /\ [][BloomNext]_vars

InitCipher == CipherInit /\ TextIdle /\ BloomIdle /\ HmacIdle /\ SearchIdle /\ WriteIdle
            /\ RaceIdle /\ AuthIdle
SpecCipher == InitCipher /\ [][CipherNext]_vars

InitHmac == HmacInit /\ TextIdle /\ BloomIdle /\ CipherIdle /\ SearchIdle /\ WriteIdle
            /\ RaceIdle /\ AuthIdle
SpecHmac == InitHmac /\ [][HmacNext]_vars

InitSearch == SearchInit /\ TextIdle /\ BloomIdle /\ WriteIdle /\ RaceIdle /\ AuthIdle
SpecSearch == InitSearch /\ [][SearchNext]_vars

InitWrite == WriteInit /\ TextIdle /\ BloomIdle /\ RaceIdle /\ AuthIdle
SpecWrite == InitWrite /\ [][WriteNext]_vars

InitRace == RaceInit /\ TextIdle /\ CipherIdle /\ HmacIdle /\ SearchIdle /\ WriteIdle
            /\ AuthIdle
SpecRace == InitRace /\ [][RaceNext]_vars

InitAuth == AuthInit /\ TextIdle /\ BloomIdle /\ CipherIdle /\ HmacIdle /\ SearchIdle
            /\ WriteIdle /\ RaceIdle
SpecAuth == InitAuth /\ [][AuthNext]_vars

====
